---- MODULE Spec2Model ----
(***************************************************************************)
(* cat-doorbell: the MQTT sighting handler with its debounce gate and its  *)
(* two alert channels (run), and the process lifecycle around it (main's   *)
(* Action: systray.Run, the trigger goroutine, the run goroutine).         *)
(*                                                                         *)
(* Time is an integer clock `now` that the environment advances; the zero  *)
(* time.Time is ZeroTime.  Strings are sequences of code points.           *)
(***************************************************************************)
EXTENDS Integers, Sequences, FiniteSets, TLC

(* ------------------------------ bounds -------------------------------- *)
NumHandlers == 2      \* handler invocations the transport may have in flight
MaxMsgs == 3          \* messages delivered in one run of the process
MaxTime == 2          \* last clock value
MaxCooldown == 2      \* largest configured DetectionTimeout
MaxLen == 2           \* longest identifier given to the matcher alone

Handlers == 1..NumHandlers

(* ------------------------------ strings ------------------------------- *)
\* code points: '-' 45, ':' 58, 'A' 65, 'B' 66, 'a' 97, 'b' 98
Alphabet == {45, 58, 65, 66, 97, 98}

\* conf.TargetMAC of the running process: "a:B"
TargetMAC == <<97, 58, 66>>

\* payloads the broker delivers: "A:b" (the target in the other case),
\* "a-B" (another separator), "" (empty)
Payloads == {<<65, 58, 98>>, <<97, 45, 66>>, <<>>}

\* one rune pair of strings.EqualFold: equal, or the smaller is an upper-case
\* ASCII letter and the larger is that letter plus 'a' - 'A'
EqualFoldRune(sr, tr) ==
    LET lo == IF tr < sr THEN tr ELSE sr
        hi == IF tr < sr THEN sr ELSE tr
    IN  \/ lo = hi
        \/ /\ 65 <= lo
           /\ lo <= 90
           /\ hi = lo + 97 - 65

\* strings.EqualFold(s, t): rune by rune while both have runes left, then
\* both must be exhausted
RECURSIVE EqualFoldFrom(_, _, _)
EqualFoldFrom(s, t, i) ==
    IF i > Len(s) \/ i > Len(t) THEN Len(s) = Len(t)
    ELSE IF EqualFoldRune(s[i], t[i]) THEN EqualFoldFrom(s, t, i + 1)
    ELSE FALSE

\* variant: a comparison that does not fold case
EqualFoldExact(s, t) == s = t

\* variant: the loop without the final test of the lengths
RECURSIVE EqualFoldNoLength(_, _, _)
EqualFoldNoLength(s, t, i) ==
    IF i > Len(s) \/ i > Len(t) THEN TRUE
    ELSE IF EqualFoldRune(s[i], t[i]) THEN EqualFoldNoLength(s, t, i + 1)
    ELSE FALSE

EqualFoldLoose(s, t) == EqualFoldNoLength(s, t, 1)

EqualFold(s, t) == EqualFoldFrom(s, t, 1)

(* ------------------------------- time --------------------------------- *)
\* the zero time.Time (var lastDetected time.Time), before every clock value
ZeroTime == -1

\* the Duration time.Since saturates to when the difference overflows (the
\* largest Duration; here the largest integer of the model)
MaxDuration == 2147483647

VARIABLES
    now,            \* the clock
    doc,            \* the configuration file given to the process
    conf,           \* the loaded configuration
    lastDetected,   \* run's lastDetected
    mu,             \* lastDetectedMu: 0 or the handler holding it
    hpc,            \* each handler invocation's position
    visual,         \* beeep.Notify's outcome for the dispatch in progress
    audio,          \* playDoorbell's outcome for the dispatch in progress
    notifyCount,    \* calls of beeep.Notify
    playCount,      \* calls of playDoorbell
    log,            \* history: the cooldown decisions, in order
    delivered,      \* history: messages handed to the handler
    lastPayload,    \* history: msg.Payload() of the latest of them
    started,        \* streams handed to speaker.Play, file and decoder open
    closed,         \* streams whose completion callback has closed them
    pcReady,        \* onReady's position
    pcTrig,         \* the trigger goroutine's position
    sigPending,     \* a signal waits in sig
    clickPending,   \* a click waits in mQuit.ClickedCh
    quitOnce,       \* systray.Quit has run its quit
    quitAt,         \* history: where run was when the quit ran
    pcMain,         \* the Action's position
    ctxDone,        \* ctx is cancelled
    cancels,        \* history: calls of cancel
    err,            \* the Action's err
    exitCode,       \* the process's exit status, -1 while it runs
    pcRun,          \* run's position
    runRet,         \* run's return value
    connected,      \* the client is connected to the broker
    subscribed,     \* the client routes mqttTopic to the handler
    brokerSub,      \* the broker holds the subscription for the session
    speaker,        \* speaker.Init succeeded and the device is open
    tempDir,        \* "none", "exists", "removed"
    iconUnpacked,   \* the icon is unpacked into tempDir
    removes,        \* history: calls of os.RemoveAll(tempDir)
    disconnects,    \* history: calls of client.Disconnect
    mObserved,      \* the matcher alone: observed identifier
    mTarget,        \* the matcher alone: target identifier
    mResult         \* the matcher alone: "none", "match" or "differ"

handlerVars == <<lastDetected, mu, hpc, visual, audio, notifyCount,
                 playCount, log, delivered, lastPayload, started,
                 closed>>
lifeVars == <<pcReady, pcTrig, sigPending, clickPending, quitOnce, quitAt,
              pcMain, ctxDone, cancels, err, exitCode>>
runVars == <<pcRun, runRet, connected, subscribed, brokerSub, speaker, tempDir,
             iconUnpacked, removes, disconnects>>
matchVars == <<mObserved, mTarget, mResult>>
confVars == <<doc, conf>>
vars == <<now, confVars, handlerVars, lifeVars, runVars, matchVars>>

\* the process has ended: no goroutine takes another step
Exited == pcMain = "exited"

(* --------------------------- configuration ---------------------------- *)
\* const APIVersion
APIVersion == "catdoorbell.github.com/v1alpha1"

\* the configuration files tried: present or not, YAML that decodes into
\* TypeMeta or not, its apiVersion and kind, fields that decode into Config
\* or not, and the two fields the handler reads
Docs ==
    [exists : BOOLEAN,
     wellFormed : BOOLEAN,
     apiVersion : {APIVersion, "catdoorbell.github.com/v1", ""},
     kind : {"Config", "config", ""},
     fieldsDecode : BOOLEAN,
     targetMAC : {TargetMAC},
     detectionTimeout : {MaxCooldown}]

\* var conf *latestconfig.Config before loadConfig: nil, no field is read
NilConf == [TargetMAC |-> <<>>, DetectionTimeout |-> 0]

\* variant: every kind gives a Config
GetConfigByKindAny(kind) == [conf |-> "Config", err |-> "nil"]

\* GetConfigByKind(kind): &Config{} for "Config", an error otherwise
GetConfigByKind(kind) ==
    IF kind = "Config" THEN [conf |-> "Config", err |-> "nil"]
    ELSE [conf |-> "nil", err |-> "unsupported kind"]

\* migrateToLatest: a *latestconfig.Config is returned as it is
migrateToLatest(versionedConf) ==
    IF versionedConf = "Config" THEN [conf |-> "Config", err |-> "nil"]
    ELSE [conf |-> "nil", err |-> "unsupported config version"]

\* config.FromYAML(r): the type meta, the switch on its apiVersion, the
\* kind, the fields, the migration; (nil, error) at the first failure
FromYAML(d) ==
    IF ~d.wellFormed THEN [conf |-> NilConf, err |-> "unmarshal type meta"]
    ELSE IF d.apiVersion # APIVersion
    THEN [conf |-> NilConf, err |-> "unsupported api version"]
    ELSE LET byKind == GetConfigByKind(d.kind)
         IN  IF byKind.err # "nil"
             THEN [conf |-> NilConf, err |-> "get config by kind"]
             ELSE IF ~d.fieldsDecode
             THEN [conf |-> NilConf, err |-> "unmarshal config"]
             ELSE LET migrated == migrateToLatest(byKind.conf)
                  IN  IF migrated.err # "nil"
                      THEN [conf |-> NilConf, err |-> "migrate config"]
                      ELSE [conf |-> [TargetMAC |-> d.targetMAC,
                                      DetectionTimeout |-> d.detectionTimeout],
                            err |-> "nil"]

(* ------------------------------- Init --------------------------------- *)
InitProcess ==
    /\ now = 0
    /\ lastDetected = ZeroTime
    /\ mu = 0
    /\ hpc = [h \in Handlers |-> "idle"]
    /\ visual = "none"
    /\ audio = "none"
    /\ notifyCount = 0
    /\ playCount = 0
    /\ log = <<>>
    /\ delivered = 0
    /\ lastPayload = <<>>
    /\ started = 0
    /\ closed = 0
    /\ pcReady = "pending"
    /\ pcTrig = "none"
    /\ sigPending = FALSE
    /\ clickPending = FALSE
    /\ quitOnce = FALSE
    /\ quitAt = "never"
    /\ pcMain = "before"
    /\ ctxDone = FALSE
    /\ cancels = 0
    /\ err = "nil"
    /\ exitCode = -1
    /\ pcRun = "none"
    /\ runRet = "nil"
    /\ connected = FALSE
    /\ subscribed = FALSE
    /\ brokerSub = FALSE
    /\ speaker = FALSE
    /\ tempDir = "none"
    /\ iconUnpacked = FALSE
    /\ removes = 0
    /\ disconnects = 0

Init ==
    /\ InitProcess
    /\ doc \in Docs
    /\ conf = NilConf
    /\ mObserved = <<>>
    /\ mTarget = <<>>
    /\ mResult = "none"

(* ---------------------------- loadConfig ------------------------------ *)
\* the Before hook: os.Open of the file and config.FromYAML; an error makes
\* app.Run return it before the Action is called, and main calls os.Exit(1)
LoadConfig ==
    /\ pcMain = "before"
    /\ LET loaded == IF doc.exists THEN FromYAML(doc)
                     ELSE [conf |-> NilConf, err |-> "open"]
       IN  IF loaded.err = "nil"
           THEN /\ conf' = loaded.conf
                /\ pcMain' = "loop"
                /\ UNCHANGED exitCode
           ELSE /\ conf' = conf
                /\ pcMain' = "exited"
                /\ exitCode' = 1
    /\ UNCHANGED <<now, doc, handlerVars, pcReady, pcTrig, sigPending,
                   clickPending, quitOnce, quitAt, ctxDone, cancels, err,
                   runVars, matchVars>>

(* ------------------------------ clock --------------------------------- *)
Tick ==
    /\ ~Exited
    /\ now < MaxTime
    /\ now' = now + 1
    /\ UNCHANGED <<confVars, handlerVars, lifeVars, runVars, matchVars>>

\* time.Since(t): now - t, saturated for the zero time
Since(t) == IF t = ZeroTime THEN MaxDuration ELSE now - t

(* ------------------------ the subscribe handler ----------------------- *)
\* the transport calls the handler with a message's payload, each call in
\* a goroutine of its own (the first free one: they are interchangeable);
\* if strings.EqualFold(mac, conf.TargetMAC) { ... }: otherwise the handler
\* returns
Deliver(h, p) ==
    /\ ~Exited
    /\ subscribed
    /\ connected
    /\ brokerSub
    /\ hpc[h] = "idle"
    /\ \A g \in Handlers : g < h => hpc[g] # "idle"
    /\ delivered < MaxMsgs
    /\ delivered' = delivered + 1
    /\ lastPayload' = p
    /\ hpc' = IF EqualFold(p, conf.TargetMAC)
              THEN [hpc EXCEPT ![h] = "lock"]
              ELSE hpc
    /\ UNCHANGED <<now, confVars, started, closed, lastDetected, mu, visual, audio, notifyCount,
                   playCount, log, lifeVars, runVars, matchVars>>

\* variant: the critical section entered without waiting for the mutex
LockUnguarded(h) ==
    /\ ~Exited
    /\ hpc[h] = "lock"
    /\ mu' = h
    /\ hpc' = [hpc EXCEPT ![h] = "check"]
    /\ UNCHANGED <<now, confVars, started, closed, lastDetected, visual, audio,
                   notifyCount, playCount, log, delivered, lastPayload,
                   lifeVars, runVars, matchVars>>

\* lastDetectedMu.Lock()
Lock(h) ==
    /\ ~Exited
    /\ hpc[h] = "lock"
    /\ mu = 0
    /\ mu' = h
    /\ hpc' = [hpc EXCEPT ![h] = "check"]
    /\ UNCHANGED <<now, confVars, started, closed, lastDetected, visual, audio,
                   notifyCount, playCount, log, delivered, lastPayload,
                   lifeVars, runVars, matchVars>>

\* variant: the boundary excluded
CooldownElapsedStrict == Since(lastDetected) > conf.DetectionTimeout

\* time.Since(lastDetected) >= conf.DetectionTimeout
CooldownElapsed == Since(lastDetected) >= conf.DetectionTimeout

\* variant: the dispatch placed after the if, not inside it
CheckFallsThrough(h) ==
    /\ ~Exited
    /\ hpc[h] = "check"
    /\ IF CooldownElapsed
       THEN /\ hpc' = [hpc EXCEPT ![h] = "write"]
            /\ log' = log
       ELSE /\ hpc' = [hpc EXCEPT ![h] = "notify"]
            /\ log' = Append(log, [t |-> now, acc |-> FALSE])
    /\ UNCHANGED <<now, confVars, started, closed, lastDetected, mu, visual, audio,
                   notifyCount, playCount, delivered, lastPayload, lifeVars, runVars,
                   matchVars>>

\* variant: a suppressed sighting restarts the cooldown window
CheckExtendsWindow(h) ==
    /\ ~Exited
    /\ hpc[h] = "check"
    /\ IF CooldownElapsed
       THEN /\ hpc' = [hpc EXCEPT ![h] = "write"]
            /\ log' = log
            /\ lastDetected' = lastDetected
       ELSE /\ hpc' = [hpc EXCEPT ![h] = "unlock"]
            /\ log' = Append(log, [t |-> now, acc |-> FALSE])
            /\ lastDetected' = now
    /\ UNCHANGED <<now, confVars, started, closed, mu, visual, audio,
                   notifyCount, playCount, delivered, lastPayload,
                   lifeVars, runVars, matchVars>>

\* the if of the cooldown: the else branch only logs, and the handler
\* returns through the deferred Unlock
Check(h) ==
    /\ ~Exited
    /\ hpc[h] = "check"
    /\ IF CooldownElapsed
       THEN /\ hpc' = [hpc EXCEPT ![h] = "write"]
            /\ log' = log
       ELSE /\ hpc' = [hpc EXCEPT ![h] = "unlock"]
            /\ log' = Append(log, [t |-> now, acc |-> FALSE])
    /\ UNCHANGED <<now, confVars, started, closed, lastDetected, mu, visual, audio,
                   notifyCount, playCount, delivered, lastPayload,
                   lifeVars, runVars, matchVars>>

\* variant: the mutex released once lastDetected is written
WriteReleasesMutex(h) ==
    /\ ~Exited
    /\ hpc[h] = "write"
    /\ lastDetected' = now
    /\ log' = Append(log, [t |-> now, acc |-> TRUE])
    /\ mu' = 0
    /\ hpc' = [hpc EXCEPT ![h] = "notify"]
    /\ UNCHANGED <<now, confVars, started, closed, visual, audio, notifyCount,
                   playCount, delivered, lastPayload, lifeVars, runVars,
                   matchVars>>

\* lastDetected = time.Now()
Write(h) ==
    /\ ~Exited
    /\ hpc[h] = "write"
    /\ lastDetected' = now
    /\ log' = Append(log, [t |-> now, acc |-> TRUE])
    /\ hpc' = [hpc EXCEPT ![h] = "notify"]
    /\ UNCHANGED <<now, confVars, started, closed, mu, visual, audio, notifyCount,
                   playCount, delivered, lastPayload, lifeVars, runVars,
                   matchVars>>

\* variant: a failed notification returns from the handler
NotifyReturnsOnError(h, ok) ==
    /\ ~Exited
    /\ hpc[h] = "notify"
    /\ visual' = IF ok THEN "ok" ELSE "failed"
    /\ notifyCount' = notifyCount + 1
    /\ hpc' = [hpc EXCEPT ![h] = IF ok THEN "play" ELSE "unlock"]
    /\ UNCHANGED <<now, confVars, started, closed, lastDetected, mu, audio, playCount,
                   log, delivered, lastPayload, lifeVars, runVars,
                   matchVars>>

\* beeep.Notify("Doorbell", message, catIconPath): an error is logged
Notify(h, ok) ==
    /\ ~Exited
    /\ hpc[h] = "notify"
    /\ visual' = IF ok THEN "ok" ELSE "failed"
    /\ notifyCount' = notifyCount + 1
    /\ hpc' = [hpc EXCEPT ![h] = "play"]
    /\ UNCHANGED <<now, confVars, started, closed, lastDetected, mu, audio, playCount,
                   log, delivered, lastPayload, lifeVars, runVars,
                   matchVars>>

\* variant: the file closed by a defer when playDoorbell returns
PlayClosesOnReturn(h, ok) ==
    /\ ~Exited
    /\ hpc[h] = "play"
    /\ audio' = IF ok THEN "ok" ELSE "failed"
    /\ playCount' = playCount + 1
    /\ started' = IF ok THEN started + 1 ELSE started
    /\ closed' = IF ok THEN closed + 1 ELSE closed
    /\ hpc' = [hpc EXCEPT ![h] = "unlock"]
    /\ UNCHANGED <<now, confVars, lastDetected, mu, visual, notifyCount,
                   log, delivered, lastPayload, lifeVars, runVars,
                   matchVars>>

\* variant: a failed playback reopens the window, to ring at the next sighting
PlayFailureReopensWindow(h, ok) ==
    /\ ~Exited
    /\ hpc[h] = "play"
    /\ audio' = IF ok THEN "ok" ELSE "failed"
    /\ playCount' = playCount + 1
    /\ started' = IF ok THEN started + 1 ELSE started
    /\ lastDetected' = IF ok THEN lastDetected ELSE ZeroTime
    /\ hpc' = [hpc EXCEPT ![h] = "unlock"]
    /\ UNCHANGED <<now, confVars, closed, mu, visual, notifyCount,
                   log, delivered, lastPayload, lifeVars, runVars,
                   matchVars>>

\* playDoorbell(): assets.Open, mp3.Decode, then speaker.Play hands the
\* stream to the mixer and returns; an error (asset open, MP3 decode) is
\* returned before speaker.Play and logged by the handler (after a decode
\* error the opened file is not closed: no stream exists to close it)
Play(h, ok) ==
    /\ ~Exited
    /\ hpc[h] = "play"
    /\ audio' = IF ok THEN "ok" ELSE "failed"
    /\ playCount' = playCount + 1
    /\ started' = IF ok THEN started + 1 ELSE started
    /\ hpc' = [hpc EXCEPT ![h] = "unlock"]
    /\ UNCHANGED <<now, confVars, closed, lastDetected, mu, visual, notifyCount,
                   log, delivered, lastPayload, lifeVars, runVars,
                   matchVars>>

\* streams in the mixer: playback in progress
Playing == started - closed

\* the speaker's goroutine reaches the end of a stream: beep.Seq goes on to
\* the beep.Callback, which closes the file and the decoder, and the mixer
\* drops the drained stream
PlaybackDone ==
    /\ ~Exited
    /\ Playing > 0
    /\ closed' = closed + 1
    /\ UNCHANGED <<now, confVars, started, lastDetected, mu, hpc, visual, audio,
                   notifyCount, playCount, log, delivered, lastPayload,
                   lifeVars, runVars, matchVars>>

\* defer lastDetectedMu.Unlock(), and the handler returns
Unlock(h) ==
    /\ ~Exited
    /\ hpc[h] = "unlock"
    /\ mu' = 0
    /\ hpc' = [hpc EXCEPT ![h] = "idle"]
    /\ visual' = "none"
    /\ audio' = "none"
    /\ UNCHANGED <<now, confVars, started, closed, lastDetected, notifyCount, playCount, log,
                   delivered, lastPayload, lifeVars, runVars, matchVars>>

(* ------------------------- main: the Action --------------------------- *)
\* systray.Quit(): quitOnce.Do(quit) ends the native loop, once
Quit ==
    /\ quitOnce' = TRUE
    /\ quitAt' = IF quitOnce THEN quitAt
                 ELSE IF pcRun = "waitCtx" THEN "running"
                 ELSE IF pcRun = "deferQuit" THEN "returned"
                 ELSE "elsewhere"

\* onReady: assets.ReadFile of the tray icon, the menu item, signal.Notify,
\* then the two goroutines; on a read error err is set and the tray quits
OnReady(ok) ==
    /\ pcMain = "loop"
    /\ pcReady = "pending"
    /\ pcReady' = "done"
    /\ IF ok
       THEN /\ pcTrig' = "waiting"
            /\ pcRun' = "hostname"
            /\ UNCHANGED <<err, quitOnce, quitAt>>
       ELSE /\ err' = "readFile"
            /\ Quit
            /\ UNCHANGED <<pcTrig, pcRun>>
    /\ UNCHANGED <<now, confVars, handlerVars, sigPending, clickPending, pcMain,
                   ctxDone, cancels, exitCode, runRet, connected, subscribed,
                   brokerSub, speaker, tempDir, iconUnpacked, removes, disconnects,
                   matchVars>>

\* the OS delivers SIGTERM or SIGINT into sig (buffered, one place) while
\* the trigger goroutine selects; once that goroutine has ended nothing
\* receives from sig again
Signal ==
    /\ ~Exited
    /\ pcTrig = "waiting"
    /\ ~sigPending
    /\ sigPending' = TRUE
    /\ UNCHANGED <<now, confVars, handlerVars, pcReady, pcTrig, clickPending,
                   quitOnce, quitAt, pcMain, ctxDone, cancels, err, exitCode, runVars,
                   matchVars>>

\* the user clicks the tray's Quit item while the trigger goroutine selects
Click ==
    /\ ~Exited
    /\ pcTrig = "waiting"
    /\ ~clickPending
    /\ clickPending' = TRUE
    /\ UNCHANGED <<now, confVars, handlerVars, pcReady, pcTrig, sigPending,
                   quitOnce, quitAt, pcMain, ctxDone, cancels, err, exitCode, runVars,
                   matchVars>>

\* variant: a select without the case for sig
TrigSelectClickOnly(fromSig) ==
    /\ ~Exited
    /\ pcTrig = "waiting"
    /\ ~fromSig
    /\ clickPending
    /\ clickPending' = FALSE
    /\ UNCHANGED sigPending
    /\ Quit
    /\ pcTrig' = "done"
    /\ UNCHANGED <<now, confVars, handlerVars, pcReady, pcMain, ctxDone, cancels,
                   err, exitCode, runVars, matchVars>>

\* the trigger goroutine: select on mQuit.ClickedCh and sig, take one,
\* systray.Quit(), and the goroutine ends
TrigSelect(fromSig) ==
    /\ ~Exited
    /\ pcTrig = "waiting"
    /\ IF fromSig
       THEN /\ sigPending
            /\ sigPending' = FALSE
            /\ UNCHANGED clickPending
       ELSE /\ clickPending
            /\ clickPending' = FALSE
            /\ UNCHANGED sigPending
    /\ Quit
    /\ pcTrig' = "done"
    /\ UNCHANGED <<now, confVars, handlerVars, pcReady, pcMain, ctxDone, cancels,
                   err, exitCode, runVars, matchVars>>

\* the native loop ends after the quit and calls onExit, which is cancel;
\* systray.Run returns
MainOnExit ==
    /\ pcMain = "loop"
    /\ quitOnce
    /\ ctxDone' = TRUE
    /\ cancels' = cancels + 1
    /\ pcMain' = "return"
    /\ UNCHANGED <<now, confVars, handlerVars, pcReady, pcTrig, sigPending,
                   clickPending, quitOnce, quitAt, err, exitCode, runVars, matchVars>>

\* return err, then the deferred cancel(); app.Run returns what was read,
\* main calls os.Exit(1) when it is not nil and returns otherwise: the
\* process ends, whatever the other goroutines are doing
MainReturn ==
    /\ pcMain = "return"
    /\ exitCode' = IF err = "nil" THEN 0 ELSE 1
    /\ cancels' = cancels + 1
    /\ pcMain' = "exited"
    /\ UNCHANGED <<now, confVars, handlerVars, pcReady, pcTrig, sigPending,
                   clickPending, quitOnce, quitAt, ctxDone, err, runVars, matchVars>>

(* ------------------------------- run ---------------------------------- *)
\* what run leaves alone in every step
RunFrame == UNCHANGED <<now, confVars, handlerVars, pcReady, pcTrig, sigPending,
                        clickPending, pcMain, ctxDone, cancels, exitCode,
                        matchVars>>

\* os.Hostname(): an error returns before any defer is registered
RunHostname(ok) ==
    /\ ~Exited
    /\ pcRun = "hostname"
    /\ pcRun' = IF ok THEN "connect" ELSE "assignErr"
    /\ runRet' = IF ok THEN runRet ELSE "startup"
    /\ UNCHANGED <<connected, subscribed, brokerSub, speaker, tempDir, iconUnpacked,
                   removes, disconnects, err, quitOnce, quitAt>>
    /\ RunFrame

\* client.Connect(); token.Wait(): then defer client.Disconnect(250)
RunConnect(ok) ==
    /\ ~Exited
    /\ pcRun = "connect"
    /\ pcRun' = IF ok THEN "speakerInit" ELSE "assignErr"
    /\ runRet' = IF ok THEN runRet ELSE "startup"
    /\ connected' = ok
    /\ UNCHANGED <<subscribed, brokerSub, speaker, tempDir, iconUnpacked, removes,
                   disconnects, err, quitOnce, quitAt>>
    /\ RunFrame

\* speaker.Init(sr, ...): an error returns through the deferred Disconnect
RunSpeakerInit(ok) ==
    /\ ~Exited
    /\ pcRun = "speakerInit"
    /\ pcRun' = IF ok THEN "mkdirTemp" ELSE "deferDisconnect"
    /\ runRet' = IF ok THEN runRet ELSE "startup"
    /\ speaker' = ok
    /\ UNCHANGED <<connected, subscribed, brokerSub, tempDir, iconUnpacked, removes,
                   disconnects, err, quitOnce, quitAt>>
    /\ RunFrame

\* os.MkdirTemp("", "cat-doorbell"): then defer os.RemoveAll(tempDir)
RunMkdirTemp(ok) ==
    /\ ~Exited
    /\ pcRun = "mkdirTemp"
    /\ pcRun' = IF ok THEN "unpack" ELSE "deferDisconnect"
    /\ runRet' = IF ok THEN runRet ELSE "startup"
    /\ tempDir' = IF ok THEN "exists" ELSE tempDir
    /\ UNCHANGED <<connected, subscribed, brokerSub, speaker, iconUnpacked, removes,
                   disconnects, err, quitOnce, quitAt>>
    /\ RunFrame

\* variant: a failed unpack is not returned
RunUnpackIgnoresError(ok) ==
    /\ ~Exited
    /\ pcRun = "unpack"
    /\ pcRun' = "subscribe"
    /\ runRet' = runRet
    /\ iconUnpacked' = ok
    /\ UNCHANGED <<connected, subscribed, brokerSub, speaker, tempDir, removes,
                   disconnects, err, quitOnce, quitAt>>
    /\ RunFrame

\* assets.Unpack("cat-icon.png", catIconPath)
RunUnpack(ok) ==
    /\ ~Exited
    /\ pcRun = "unpack"
    /\ pcRun' = IF ok THEN "subscribe" ELSE "deferRemoveAll"
    /\ runRet' = IF ok THEN runRet ELSE "startup"
    /\ iconUnpacked' = ok
    /\ UNCHANGED <<connected, subscribed, brokerSub, speaker, tempDir, removes,
                   disconnects, err, quitOnce, quitAt>>
    /\ RunFrame

\* client.Subscribe(mqttTopic, 0, handler); token.Wait(): the token carries
\* an error when the client is not connected
RunSubscribe(ok) ==
    /\ ~Exited
    /\ pcRun = "subscribe"
    /\ ok => connected
    /\ pcRun' = IF ok THEN "waitCtx" ELSE "deferRemoveAll"
    /\ runRet' = IF ok THEN runRet ELSE "startup"
    /\ subscribed' = ok
    /\ brokerSub' = ok
    /\ UNCHANGED <<connected, speaker, tempDir, iconUnpacked, removes,
                   disconnects, err, quitOnce, quitAt>>
    /\ RunFrame

\* <-ctx.Done(); return ctx.Err()
RunCtxDone ==
    /\ ~Exited
    /\ pcRun = "waitCtx"
    /\ ctxDone
    /\ runRet' = "canceled"
    /\ pcRun' = "deferRemoveAll"
    /\ UNCHANGED <<connected, subscribed, brokerSub, speaker, tempDir, iconUnpacked,
                   removes, disconnects, err, quitOnce, quitAt>>
    /\ RunFrame

\* the deferred os.RemoveAll(tempDir)
RunDeferRemoveAll ==
    /\ ~Exited
    /\ pcRun = "deferRemoveAll"
    /\ tempDir' = "removed"
    /\ iconUnpacked' = FALSE
    /\ removes' = removes + 1
    /\ pcRun' = "deferDisconnect"
    /\ UNCHANGED <<runRet, connected, subscribed, brokerSub, speaker, disconnects, err,
                   quitOnce, quitAt>>
    /\ RunFrame

\* the deferred client.Disconnect(250)
RunDeferDisconnect ==
    /\ ~Exited
    /\ pcRun = "deferDisconnect"
    /\ connected' = FALSE
    /\ subscribed' = FALSE
    /\ brokerSub' = FALSE
    /\ disconnects' = disconnects + 1
    /\ pcRun' = "assignErr"
    /\ UNCHANGED <<runRet, speaker, tempDir, iconUnpacked, removes, err,
                   quitOnce, quitAt>>
    /\ RunFrame

\* err = run(ctx, conf): the goroutine stores what run returned
RunAssignErr ==
    /\ ~Exited
    /\ pcRun = "assignErr"
    /\ err' = runRet
    /\ pcRun' = "deferQuit"
    /\ UNCHANGED <<runRet, connected, subscribed, brokerSub, speaker, tempDir,
                   iconUnpacked, removes, disconnects, quitOnce, quitAt>>
    /\ RunFrame

\* defer systray.Quit(), and the goroutine ends
RunDeferQuit ==
    /\ ~Exited
    /\ pcRun = "deferQuit"
    /\ Quit
    /\ pcRun' = "done"
    /\ UNCHANGED <<runRet, connected, subscribed, brokerSub, speaker, tempDir,
                   iconUnpacked, removes, disconnects, err>>
    /\ RunFrame

(* --------------------------- the transport ---------------------------- *)
\* the client is between a successful Connect and its Disconnect
ClientStarted == pcRun \in {"speakerInit", "mkdirTemp", "unpack", "subscribe",
                            "waitCtx", "deferRemoveAll", "deferDisconnect"}

\* what the transport's callbacks leave alone: they write a log record
CallbackFrame == UNCHANGED <<handlerVars, lifeVars, pcRun, runRet, subscribed,
                             speaker, tempDir, iconUnpacked, removes,
                             disconnects>>

\* opts.OnConnect: slog.Info
OnConnect == CallbackFrame

\* variant: the callback forgets the last detection
OnConnectionLostResets ==
    /\ lastDetected' = ZeroTime
    /\ UNCHANGED <<mu, hpc, visual, audio, notifyCount, playCount, log,
                   delivered, lastPayload, started, closed, lifeVars, pcRun,
                   runRet, subscribed, speaker, tempDir, iconUnpacked,
                   removes, disconnects>>

\* opts.OnConnectionLost: slog.Warn
OnConnectionLost == CallbackFrame

\* the network connection to the broker breaks: the client (AutoReconnect, the
\* default of NewClientOptions) calls OnConnectionLost and starts to
\* reconnect; the session was a clean one (the default), so the broker
\* drops its subscriptions with the connection
ConnectionLost ==
    /\ ~Exited
    /\ ClientStarted
    /\ connected
    /\ connected' = FALSE
    /\ brokerSub' = FALSE
    /\ OnConnectionLost
    /\ UNCHANGED <<now, confVars, matchVars>>

\* the client's reconnect succeeds: a new clean session, and OnConnect is
\* called; run subscribed once, after the first Connect, and nothing
\* subscribes again
Reconnect ==
    /\ ~Exited
    /\ ClientStarted
    /\ ~connected
    /\ connected' = TRUE
    /\ brokerSub' = brokerSub
    /\ OnConnect
    /\ UNCHANGED <<now, confVars, matchVars>>

(* ------------------------- the matcher alone -------------------------- *)
RECURSIVE Strings(_)
Strings(n) ==
    IF n = 0 THEN {<<>>}
    ELSE LET shorter == Strings(n - 1)
         IN  shorter \cup {Append(s, c) : s \in shorter, c \in Alphabet}

InitMatch ==
    /\ InitProcess
    /\ doc = [exists |-> TRUE, wellFormed |-> TRUE, apiVersion |-> APIVersion,
              kind |-> "Config", fieldsDecode |-> TRUE,
              targetMAC |-> TargetMAC, detectionTimeout |-> MaxCooldown]
    /\ conf = NilConf
    /\ mObserved \in Strings(MaxLen)
    /\ mTarget \in Strings(MaxLen)
    /\ mResult = "none"

\* strings.EqualFold(mac, conf.TargetMAC) on the pair
MatchPair ==
    /\ mResult = "none"
    /\ mResult' = IF EqualFold(mObserved, mTarget) THEN "match" ELSE "differ"
    /\ UNCHANGED <<now, confVars, handlerVars, lifeVars, runVars, mObserved,
                   mTarget>>

NextMatch == MatchPair

SpecMatch == InitMatch /\ [][NextMatch]_vars

(* ------------------------------- Next --------------------------------- *)
\* the process on a network that stays up once the client has connected;
\* NextNet adds the loss of the connection and the reconnect
Next ==
    \/ LoadConfig
    \/ Tick
    \/ \E h \in Handlers, p \in Payloads : Deliver(h, p)
    \/ \E h \in Handlers : Lock(h)
    \/ \E h \in Handlers : Check(h)
    \/ \E h \in Handlers : Write(h)
    \/ \E h \in Handlers, ok \in BOOLEAN : Notify(h, ok)
    \/ \E h \in Handlers, ok \in BOOLEAN : Play(h, ok)
    \/ \E h \in Handlers : Unlock(h)
    \/ PlaybackDone
    \/ \E ok \in BOOLEAN : OnReady(ok)
    \/ Signal
    \/ Click
    \/ \E fromSig \in BOOLEAN : TrigSelect(fromSig)
    \/ MainOnExit
    \/ MainReturn
    \/ \E ok \in BOOLEAN : RunHostname(ok)
    \/ \E ok \in BOOLEAN : RunConnect(ok)
    \/ \E ok \in BOOLEAN : RunSpeakerInit(ok)
    \/ \E ok \in BOOLEAN : RunMkdirTemp(ok)
    \/ \E ok \in BOOLEAN : RunUnpack(ok)
    \/ \E ok \in BOOLEAN : RunSubscribe(ok)
    \/ RunCtxDone
    \/ RunDeferRemoveAll
    \/ RunDeferDisconnect
    \/ RunAssignErr
    \/ RunDeferQuit

Spec == Init /\ [][Next]_vars

\* the same process on a network that breaks and comes back
NextNet ==
    \/ Next
    \/ ConnectionLost
    \/ Reconnect

SpecNet == Init /\ [][NextNet]_vars

\* the scheduling the Go runtime and the tray's native loop give: a goroutine
\* that can take its step (the trigger goroutine with an event waiting) and
\* the main thread (the loop's end after a quit, the Action's return) are
\* not delayed forever
Fairness ==
    /\ WF_vars(\E fromSig \in BOOLEAN : TrigSelect(fromSig))
    /\ WF_vars(MainOnExit)
    /\ WF_vars(MainReturn)

SpecFair == Init /\ [][Next]_vars /\ Fairness

(* ------------------------- lifecycle states --------------------------- *)
Starting == ~Exited /\ pcRun \in {"hostname", "connect", "speakerInit",
                                  "mkdirTemp", "unpack", "subscribe"}
Running == ~Exited /\ pcRun = "waitCtx" /\ ~quitOnce
Stopped == Exited
ShuttingDown == ~Exited /\ ~Starting /\ ~Running /\ pcReady = "done"
\* the rank of the lifecycle state
Phase ==
    IF Stopped THEN 4
    ELSE IF ShuttingDown THEN 3
    ELSE IF Running THEN 2
    ELSE 1
\* run got as far as the wait on ctx.Done()
WasRunning == pcRun = "waitCtx" \/ runRet = "canceled"

(* ----------------------------- the claims ----------------------------- *)
Accepted == {i \in DOMAIN log : log[i].acc}
Suppressed == {i \in DOMAIN log : ~log[i].acc}
LastAccepted == log # <<>> /\ log[Len(log)].acc

\* C1: any two accepted detections, in every interleaving of the handler
\* invocations, lie at least conf.DetectionTimeout apart.
C1_DetectionsSeparated ==
    \A i, j \in DOMAIN log :
        (i < j /\ log[i].acc /\ log[j].acc)
            => log[j].t - log[i].t >= conf.DetectionTimeout

C1_Witness ==
    /\ conf.DetectionTimeout > 0
    /\ Cardinality(Accepted) >= 2
    /\ Suppressed # {}

\* C2: with a positive cooldown, as long as the clock still shows the
\* instant of the first decision of a fresh process, exactly one of the
\* qualifying sightings decided so far is accepted: the first is accepted
\* (never zero) and no other is (never more than one).
C2_ExactlyOneAtAnInstant ==
    (conf.DetectionTimeout > 0 /\ log # <<>> /\ now = log[1].t)
        => /\ log[1].acc
           /\ \A i \in DOMAIN log : i > 1 => ~log[i].acc
           /\ \A h \in Handlers : hpc[h] # "write"

C2_Witness ==
    /\ conf.DetectionTimeout > 0
    /\ Len(log) >= 2
    /\ now = log[1].t
    /\ Cardinality(Accepted) = 1
    /\ \A h \in Handlers : hpc[h] = "idle"

\* the debounce rule applied to a sequence of sighting times: the flags of
\* ts[i..], given the time of the last accepted sighting (ZeroTime: none)
RECURSIVE DebounceRule(_, _, _, _)
DebounceRule(ts, i, last, cooldown) ==
    IF i > Len(ts) THEN <<>>
    ELSE LET accept == last = ZeroTime \/ ts[i] - last >= cooldown
         IN  <<accept>> \o DebounceRule(ts, i + 1,
                                        IF accept THEN ts[i] ELSE last,
                                        cooldown)

\* C3: the sightings are decided at non-decreasing times; each is accepted
\* exactly when it is the first or its time minus the time of the last
\* accepted one is at least the cooldown (equality accepts), and
\* lastDetected is the time of the last accepted one.
C3_DebounceRule ==
    LET ts == [i \in DOMAIN log |-> log[i].t]
        flags == [i \in DOMAIN log |-> log[i].acc]
    IN  /\ \A i \in DOMAIN log : i > 1 => ts[i - 1] <= ts[i]
        /\ flags = DebounceRule(ts, 1, ZeroTime, conf.DetectionTimeout)
        /\ lastDetected = IF Accepted = {} THEN ZeroTime
                          ELSE ts[CHOOSE i \in Accepted :
                                      \A j \in Accepted : j <= i]

\* cooldown c, sightings at 0, c - 1 and c: the first and the third accepted
C3_Witness ==
    /\ conf.DetectionTimeout = MaxCooldown
    /\ Len(log) = 3
    /\ log[1] = [t |-> 0, acc |-> TRUE]
    /\ log[2] = [t |-> MaxCooldown - 1, acc |-> FALSE]
    /\ log[3] = [t |-> MaxCooldown, acc |-> TRUE]
    /\ lastDetected = MaxCooldown

\* equal but for the case of letters: the lower-cased strings are the same
ToLower(r) == IF r >= 65 /\ r <= 90 THEN r + 32 ELSE r
SameIgnoringCase(s, t) ==
    [i \in DOMAIN s |-> ToLower(s[i])] = [i \in DOMAIN t |-> ToLower(t[i])]

\* C4: the delivery of a payload that is not the target (whatever its
\* case) starts no handler work: it changes neither a handler's position,
\* lastDetected, the mutex, an alert channel nor the lifecycle of the
\* process.
C4_NonMatchingIsolated ==
    [][(/\ delivered' # delivered
        /\ ~SameIgnoringCase(lastPayload', conf.TargetMAC))
          => UNCHANGED <<hpc, lastDetected, mu, visual, audio, notifyCount,
                         playCount, log, lifeVars, runVars>>]_vars

\* an empty payload and then "a-B" were delivered to the running process
C4_Witness ==
    /\ delivered = 2
    /\ lastPayload = <<97, 45, 66>>
    /\ \A h \in Handlers : hpc[h] = "idle"
    /\ log = <<>>
    /\ lastDetected = ZeroTime
    /\ Running

\* C5: the match of a pair of identifiers is true exactly when the two are
\* equal ignoring the case of letters; separators are compared as they are.
C5_MatchIsCaseInsensitiveEquality ==
    /\ mResult = "match" => SameIgnoringCase(mObserved, mTarget)
    /\ mResult = "differ" => ~SameIgnoringCase(mObserved, mTarget)

\* "A:" against "a:" is a match
C5_Witness ==
    /\ mObserved = <<65, 58>>
    /\ mTarget = <<97, 58>>
    /\ mResult = "match"

\* C6: a dispatch that has reached the audio cue has attempted the visual
\* notification, whatever its outcome; one that has returned has attempted
\* both, and the visual outcome still stands; and no attempt on an alert
\* channel ends the process or run.
C6_ChannelsIndependent ==
    /\ [](\A h \in Handlers :
            /\ hpc[h] = "play" => visual # "none"
            /\ (hpc[h] = "unlock" /\ LastAccepted)
                  => (visual # "none" /\ audio # "none"))
    /\ [][(notifyCount' # notifyCount \/ playCount' # playCount)
            => UNCHANGED <<lifeVars, runVars, lastDetected, log>>]_vars

C6_Witness ==
    \E h \in Handlers :
        /\ hpc[h] = "unlock"
        /\ visual = "failed"
        /\ audio = "ok"

\* C7: each alert channel has been attempted once for every accepted
\* detection, the dispatches in progress counted at the channel they have
\* reached, and a handler is in a dispatch only for a detection it accepted.
C7_AlertsOncePerAccepted ==
    LET inNotify == Cardinality({h \in Handlers : hpc[h] = "notify"})
        inPlay == Cardinality({h \in Handlers : hpc[h] = "play"})
    IN  /\ notifyCount + inNotify = Cardinality(Accepted)
        /\ playCount + inPlay + inNotify = Cardinality(Accepted)
        /\ \A h \in Handlers :
              hpc[h] \in {"notify", "play"} => (mu = h /\ LastAccepted)

C7_Witness ==
    /\ Cardinality(Accepted) = 2
    /\ Suppressed # {}
    /\ notifyCount = 2
    /\ playCount = 2
    /\ \A h \in Handlers : hpc[h] = "idle"

\* C8: once the process has stopped after termination triggers that came
\* while it was running, two of them issued, the teardown has run exactly
\* once: the context is cancelled, the temporary directory removed once and
\* the transport disconnected once.
C8_TeardownExactlyOnce ==
    (Stopped /\ quitAt = "running" /\ pcTrig = "done"
       /\ (sigPending \/ clickPending))
        => /\ ctxDone
           /\ removes = 1
           /\ disconnects = 1

\* C9: when the process has stopped, after run returned by itself (an error
\* of the start-up) or after a termination trigger that came while it was
\* running, every resource it acquired has been released, and none more
\* than once.
C9_ResourcesReleased ==
    (Stopped /\ quitAt \in {"returned", "running"})
        => /\ ~connected
           /\ ~speaker
           /\ tempDir # "exists"
           /\ removes <= 1
           /\ disconnects <= 1

\* C10: after a step of the start-up has failed the handler has never run,
\* and an Action that returns after the failure returns the error, so that
\* the exit status is not zero.
C10_StartupFailureReported ==
    /\ [](runRet = "startup"
            => (log = <<>> /\ delivered = 0 /\ notifyCount = 0
                  /\ playCount = 0 /\ ~subscribed))
    /\ [][(runRet = "startup" /\ pcMain = "return" /\ pcMain' = "exited")
            => exitCode' = 1]_vars

\* C11: a process that was Running when the termination trigger was taken
\* (a signal or the tray's Quit) stops with exit status zero, whichever of
\* the run goroutine's write of err and the Action's return comes first.
C11_CleanExitAfterShutdown ==
    (Stopped /\ quitAt = "running") => exitCode = 0

\* inside the cooldown window: an accepted detection exists and less than
\* the cooldown has passed since it
InsideWindow ==
    /\ lastDetected # ZeroTime
    /\ now - lastDetected < conf.DetectionTimeout

\* C15: a handler that decides a qualifying sighting inside the cooldown
\* window goes straight to its return, leaving lastDetected and both alert
\* channels as they were; and while it returns, lastDetected is still the
\* time of the last accepted detection and no channel has an outcome.
C15_SuppressedLeavesState ==
    /\ [][\A h \in Handlers :
            (hpc[h] = "check" /\ hpc'[h] # "check" /\ InsideWindow)
                => /\ hpc'[h] = "unlock"
                   /\ log' = Append(log, [t |-> now, acc |-> FALSE])
                   /\ UNCHANGED <<lastDetected, notifyCount, playCount,
                                  visual, audio>>]_vars
    /\ [](\A h \in Handlers :
            (hpc[h] = "unlock" /\ ~LastAccepted)
                => /\ Accepted # {}
                   /\ lastDetected = log[CHOOSE i \in Accepted :
                                             \A j \in Accepted : j <= i].t
                   /\ visual = "none"
                   /\ audio = "none"
                   /\ notifyCount = Cardinality(Accepted)
                   /\ playCount = Cardinality(Accepted))

\* accepted at 0, then a sighting suppressed at a later time inside the
\* window: the handler is returning and lastDetected is still 0
C15_Witness ==
    /\ conf.DetectionTimeout = MaxCooldown
    /\ log = <<[t |-> 0, acc |-> TRUE], [t |-> MaxCooldown - 1, acc |-> FALSE]>>
    /\ \E h \in Handlers : hpc[h] = "unlock"
    /\ lastDetected = 0
    /\ notifyCount = 1
    /\ playCount = 1

\* C16: after a termination trigger taken while the process was running,
\* once the release of the temporary directory has begun no sighting is
\* accepted and no alert channel is attempted.
C16_NothingAfterRelease ==
    [][(quitAt = "running" /\ removes > 0)
         => /\ Accepted' = Accepted
            /\ UNCHANGED <<notifyCount, playCount>>]_vars

\* C17: the process never stops while a handler is inside the dispatch of
\* an accepted detection (lastDetected written, a channel still to attempt).
C17_DispatchCompletes ==
    (Stopped /\ quitAt = "running")
        => \A h \in Handlers : hpc[h] \notin {"notify", "play"}

\* C12: under fair scheduling a termination trigger that waits while the
\* process is Running leads to Stopped; the lifecycle never moves backwards
\* and passes through ShuttingDown on the way from Running; Stopped is
\* terminal, and in Stopped nothing changes: no message is handled.
C12_ShutdownCompletes ==
    /\ (Running /\ (sigPending \/ clickPending)) ~> Stopped
    /\ [][/\ Phase' >= Phase
          /\ Running => (Running' \/ ShuttingDown')
          /\ Stopped => (Stopped' /\ UNCHANGED vars)]_vars

\* stopped after a signal taken while running, a message having been
\* handled before
C12_Witness ==
    /\ Stopped
    /\ quitAt = "running"
    /\ pcTrig = "done"
    /\ ~sigPending
    /\ ~clickPending
    /\ log # <<>>

\* a document the program does not support: it does not decode, or names
\* another apiVersion or another kind than the one supported
Unresolvable(d) ==
    \/ ~d.wellFormed
    \/ d.apiVersion # "catdoorbell.github.com/v1alpha1"
    \/ d.kind # "Config"
    \/ ~d.fieldsDecode

\* C14: for a configuration file that does not resolve, FromYAML returns an
\* error and no configuration; the process never starts the tray or run,
\* never connects, subscribes or attempts an alert, and when it has stopped
\* its exit status is 1.
C14_ConfigFailureStopsProcess ==
    Unresolvable(doc)
        => /\ FromYAML(doc).err # "nil"
           /\ FromYAML(doc).conf = NilConf
           /\ conf = NilConf
           /\ pcMain \in {"before", "exited"}
           /\ pcReady = "pending"
           /\ pcRun = "none"
           /\ ~connected
           /\ ~subscribed
           /\ delivered = 0
           /\ notifyCount = 0
           /\ playCount = 0
           /\ Stopped => exitCode = 1

\* a readable document of the supported apiVersion whose kind is "config":
\* the process has stopped
C14_Witness ==
    /\ doc.exists
    /\ doc.wellFormed
    /\ doc.apiVersion = APIVersion
    /\ doc.kind = "config"
    /\ Stopped
    /\ exitCode = 1

\* C13: while the process is Running and the transport is connected (also
\* after a connection that was lost and made again) the broker holds the
\* subscription, so that a qualifying sighting published then is delivered
\* to the handler.
C13_IngestionResumes ==
    (Running /\ connected) => (subscribed /\ brokerSub)

\* C20: a connection event (lost, made again) changes neither lastDetected,
\* the mutex, a handler's position, the decisions taken, the lifecycle
\* state nor the handler's registration; and with such events in the run
\* the decisions still follow the debounce rule over the sighting times.
C20_ConnectionEventsDiagnostic ==
    /\ [][(connected' # connected /\ pcRun' = pcRun)
            => /\ UNCHANGED <<lastDetected, mu, hpc, log, notifyCount,
                              playCount, subscribed, lifeVars, runRet>>
               /\ Phase' = Phase]_vars
    /\ [](LET ts == [i \in DOMAIN log |-> log[i].t]
          IN  [i \in DOMAIN log |-> log[i].acc]
                  = DebounceRule(ts, 1, ZeroTime, conf.DetectionTimeout))

\* the connection was lost and made again while the process is Running,
\* with a detection accepted and a decision still to come
C20_Witness ==
    /\ Running
    /\ connected
    /\ ~brokerSub
    /\ subscribed
    /\ lastDetected = 0
    /\ now = MaxCooldown
    /\ \E h \in Handlers : hpc[h] = "check"

\* C18: a playback starts in the step in which playDoorbell returns, with
\* nothing closed in that step, so the handler goes on to its return while
\* the stream plays; a stream's file and decoder are closed by the
\* completion of a playback in progress, one stream at a time, in a step
\* that is not a handler's; no stream is closed that was not started.
C18_PlaybackFireAndForget ==
    /\ [](closed <= started /\ started <= playCount)
    /\ [][started' # started
            => /\ started' = started + 1
               /\ closed' = closed
               /\ \E h \in Handlers :
                     hpc[h] = "play" /\ hpc'[h] = "unlock"]_vars
    /\ [][closed' # closed
            => /\ closed' = closed + 1
               /\ closed < started
               /\ UNCHANGED <<hpc, mu, started, playCount>>]_vars

\* the handler has returned and the mutex is free while a stream plays,
\* after an earlier stream was closed
C18_Witness ==
    /\ Playing = 1
    /\ closed = 1
    /\ mu = 0
    /\ \A h \in Handlers : hpc[h] = "idle"

\* C19: an attempt on an alert channel, whatever its outcome, moves the
\* handler on to the next channel or to its return and leaves lastDetected,
\* the decisions and the mutex as they were; no outcome is left when a
\* sighting is decided; and a sighting is accepted exactly when no earlier
\* one was accepted or the latest accepted one lies at least the cooldown
\* back: the accepted set depends on the sighting times alone.
C19_FailuresLeaveDetectionsAlone ==
    /\ [][\A h \in Handlers :
            /\ (hpc[h] = "notify" /\ hpc'[h] # "notify")
                  => /\ hpc'[h] = "play"
                     /\ UNCHANGED <<lastDetected, log, mu, delivered>>
            /\ (hpc[h] = "play" /\ hpc'[h] # "play")
                  => /\ hpc'[h] = "unlock"
                     /\ UNCHANGED <<lastDetected, log, mu, delivered>>]_vars
    /\ [](\A h \in Handlers :
            hpc[h] \in {"check", "write"} => (visual = "none" /\ audio = "none"))
    /\ [](\A i \in DOMAIN log :
            LET earlier == {j \in Accepted : j < i}
            IN  log[i].acc <=>
                  \/ earlier = {}
                  \/ log[i].t - log[CHOOSE j \in earlier :
                                       \A k \in earlier : k <= j].t
                        >= conf.DetectionTimeout)

\* the audio cue failed at both detections (no stream was ever started):
\* the second was accepted all the same and attempted both channels
C19_Witness ==
    /\ Cardinality(Accepted) = 2
    /\ notifyCount = 2
    /\ playCount = 2
    /\ started = 0
    /\ \A h \in Handlers : hpc[h] = "idle"

\* the handler invocations between lastDetectedMu.Lock() and the deferred
\* Unlock: the cooldown check, the write, the two channels, the return
InCritical == {h \in Handlers :
                 hpc[h] \in {"check", "write", "notify", "play", "unlock"}}

\* C21: at most one handler invocation is between the cooldown check and
\* its return, and it holds the mutex, so two dispatches never overlap; a
\* handler decides only while every other invocation is outside that
\* section (returned, or waiting for the mutex), and it decides on the
\* clock as it is at that step.
C21_MutexHeldThroughDispatch ==
    /\ [](/\ Cardinality(InCritical) <= 1
          /\ \A h \in InCritical : mu = h
          /\ mu # 0 => mu \in InCritical)
    /\ [][\A h \in Handlers :
            (hpc[h] = "check" /\ hpc'[h] # "check")
                => /\ \A g \in Handlers \ {h} : hpc[g] \in {"idle", "lock"}
                   /\ hpc'[h] = "write"
                         <=> \/ lastDetected = ZeroTime
                             \/ now - lastDetected >= conf.DetectionTimeout
                   /\ hpc'[h] = "unlock"
                         => log' = Append(log, [t |-> now, acc |-> FALSE])]_vars

\* a handler is at the audio cue of a detection accepted at 0, the clock
\* has moved on, and another qualifying sighting waits for the mutex
C21_Witness ==
    \E h, g \in Handlers :
        /\ hpc[h] = "play"
        /\ mu = h
        /\ hpc[g] = "lock"
        /\ lastDetected = 0
        /\ now = MaxCooldown

\* C22: the handler is registered in a step before which the client is
\* connected, the speaker initialised, the temporary directory made and the
\* icon unpacked; while the process is Starting, and after a start-up step
\* has failed, no message was delivered, no sighting decided, no alert
\* channel attempted and no handler invocation is in progress.
C22_HandlerRegisteredLast ==
    /\ [][(subscribed' /\ ~subscribed)
            => (connected /\ speaker /\ tempDir = "exists" /\ iconUnpacked)]_vars
    /\ []((Starting \/ runRet = "startup")
            => /\ delivered = 0
               /\ log = <<>>
               /\ notifyCount = 0
               /\ playCount = 0
               /\ started = 0
               /\ \A h \in Handlers : hpc[h] = "idle")

\* the unpack of the icon failed after the other acquisitions succeeded:
\* run is on its way out and nothing was ever delivered
C22_Witness ==
    /\ runRet = "startup"
    /\ pcRun = "deferRemoveAll"
    /\ connected
    /\ speaker
    /\ tempDir = "exists"
    /\ ~iconUnpacked
    /\ ~subscribed
    /\ delivered = 0

====
